---- MODULE Spec2Model ----
(***************************************************************************)
(* Verification model of deng-leon/voice-chat.                             *)
(*                                                                         *)
(*  - SpecChunk : the audio worklet (frontend/public/vad-processor.js)     *)
(*               that cuts the microphone signal into frames.              *)
(*  - SpecFilter : the filter handleLLMResponse applies to the text of a    *)
(*               stalling generation (same file, lines 1141-1149).         *)
(*  - SpecSeg  : the STT worker (frontend/public/stt-worker-esm.js,        *)
(*               lines 44-359): VAD hysteresis, the recording buffer, the  *)
(*               audio queue and the dispatch to the transcription engine. *)
(*  - SpecStream : the same worker fed with frames whose samples are       *)
(*               numbered in arrival order, so that order can be observed. *)
(*  - SpecOrch : the turn-taking orchestrator (VoiceChat component, same   *)
(*               file, lines 651-1395): transcripts, external replies,     *)
(*               stalling generations, playback, call start and call end,  *)
(*               with one handler run suspended at a time.                 *)
(*  - SpecOrchPar : one call of the orchestrator during which a request    *)
(*               submitted as text before the call may still be running.   *)
(*  - SpecCall : the first call alone, with the speaker mute button.       *)
(*  - SpecOrchEnd : SpecOrchPar restricted to the first call, with call    *)
(*               end (the only caller of tts.stop that has an effect).     *)
(*                                                                         *)
(* Every action is one run of a handler from one suspension point (await)  *)
(* to the next; JavaScript runs such a stretch without interleaving.       *)
(*                                                                         *)
(* Sample counts are scaled: the thresholds below keep the order of the    *)
(* source's values (frame 512 < pad 1280 < min speech 4000 < min silence   *)
(* 16000 < buffer 480000) at sizes a model checker can enumerate.          *)
(***************************************************************************)
EXTENDS Integers, Sequences, FiniteSets, TLC

\* ------------------------------------------------------------------------
\* Bounds (scaled sizes and caps of the model)
\* ------------------------------------------------------------------------
MIN_CHUNK_SIZE == 2
SPEECH_PAD_SAMPLES == 3
MIN_SPEECH_DURATION_SAMPLES == 5
MIN_SILENCE_DURATION_SAMPLES == 6
BufferLength == 17
MaxQueue == 2
MaxStops == 1
MaxRuns == 1
MaxHist == 3
MaxBlocks == 4
MaxResponse == 5
MaxFrames == 10

\* ------------------------------------------------------------------------
\* Program constants
\* ------------------------------------------------------------------------
\* speech probabilities are modelled in hundredths
SPEECH_THRESHOLD == 50
EXIT_THRESHOLD == 15

MAX_NUM_PREV_BUFFERS == (SPEECH_PAD_SAMPLES + MIN_CHUNK_SIZE - 1) \div MIN_CHUNK_SIZE

\* ------------------------------------------------------------------------
\* Helpers for typed arrays
\* ------------------------------------------------------------------------
Min(a, b) == IF a < b THEN a ELSE b

Zeros(n) == [i \in 1..n |-> 0]

\* Float32Array.prototype.set(src, off)
ArraySet(buf, src, off) ==
  [i \in 1..Len(buf) |-> IF i > off /\ i <= off + Len(src) THEN src[i - off] ELSE buf[i]]

\* Float32Array.prototype.fill(0, off)
ArrayFill0(buf, off) ==
  [i \in 1..Len(buf) |-> IF i > off THEN 0 ELSE buf[i]]

\* slice(from, to) / subarray(from, to): the end is clamped to the length
ArraySlice(buf, from, to) == SubSeq(buf, from + 1, Min(to, Len(buf)))

RECURSIVE Concat(_)
Concat(seqs) == IF seqs = <<>> THEN <<>> ELSE Head(seqs) \o Concat(Tail(seqs))

\* the frames the chunker posts: MIN_CHUNK_SIZE samples; a sample is modelled
\* by its position in its frame (1, 2, ...), 0 is a cleared buffer cell
Frame == [i \in 1..MIN_CHUNK_SIZE |-> i]
Frames == {Frame}

\* probabilities the VAD model may return (below exit, at exit, between,
\* at enter, above enter)
Probabilities == {10, 15, 30, 50, 51}

\* raw results of the transcription engine, as token sequences
RawTexts == { <<"hello">>, <<" ", "hello", " ">>, <<" ">>, <<>>, <<"[BLANK_AUDIO]">> }

RECURSIVE TrimLeft(_)
TrimLeft(s) == IF s # <<>> /\ Head(s) = " " THEN TrimLeft(Tail(s)) ELSE s

RECURSIVE TrimRight(_)
TrimRight(s) ==
  IF s # <<>> /\ s[Len(s)] = " " THEN TrimRight(SubSeq(s, 1, Len(s) - 1)) ELSE s

\* String.prototype.trim
Trim(s) == TrimRight(TrimLeft(s))

VARIABLES
  \* ---- audio worklet (vad-processor.js) ----
  globalBuffer,       \* the partial frame
  globalPointer,      \* samples held in the partial frame
  portOut,            \* the frames posted to the main thread, in order
  inputCount,         \* samples received so far; the k-th has value k
  blocks,             \* calls of process so far
  \* ---- STT worker ----
  BUFFER,             \* the recording buffer
  bufferPointer,      \* write cursor
  isRecording,
  postSpeechSamples,
  prevBuffers,        \* pre-speech FIFO
  vadState,           \* recurrent state of the VAD model: the last sample it was fed
  isProcessing,       \* processQueue lock
  audioQueue,
  pq,                 \* the processQueue run: where it is suspended
  stops,              \* stop handlers suspended in transcribe
  workerOut,          \* messages posted by the last worker step
  \* ---- orchestrator (VoiceChat) ----
  messages,                  \* React state: conversation history
  messagesRef,               \* messagesRef.current, refreshed by an effect
  isCallActive,              \* React state
  isCallActiveRef,           \* isCallActiveRef.current, refreshed by an effect
  status,                    \* React state
  isProcessingRef,
  abortControllerRef,        \* id of the controller it holds, 0 for null
  pendingUserInputRef,
  stallingIntervalRef,       \* "null", "armed", or "fired" (id of a timer that ran)
  isAITurnRef,
  botReplyQueueRef,
  lastSeenFactualReplyRef,
  llmStatus,                 \* status of the useWebLLM hook
  webllmRefIsReady,          \* webllmRef.current.isReady, refreshed by an effect
  wsOpen,                    \* a WebSocket with handleBotReply attached exists
  runs,                      \* handler runs suspended in an await
  ttsAbortControllerRef,     \* useTTS: id of the run whose speak owns it, 0 for null
  sourceNodeRef,             \* useTTS: id of the run whose source it holds, 0 for null
  ttsStatus,                 \* useTTS: status of the hook
  muted,                     \* useTTS: React state of the mute flag
  gainNodeRef,               \* useTTS: gain.value of the gain node, -1 for null
  delayed,                   \* setTimeout(..., 0) tasks of the pending-input path
  relayed,                   \* text the last step posted to the backend (relayToZeebe)
  \* ---- handleLLMResponse between the generation and the history ----
  language,                  \* React state: the language of the session
  stallingPhase,             \* isStalling of the handleLLMResponse run
  chatResult,                \* the text webllm.chat returned
  filtered,                  \* assistantMessage once the stalling filter has run
  filterPc,                  \* "returned" or "filtered"
  ev                         \* what the last step did

chunkVars == <<globalBuffer, globalPointer, portOut, inputCount, blocks>>

segVars == <<BUFFER, bufferPointer, isRecording, postSpeechSamples, prevBuffers,
             vadState, isProcessing, audioQueue, pq, stops, workerOut>>

orchState == <<messages, messagesRef, isCallActive, isCallActiveRef, status,
               isProcessingRef, abortControllerRef, pendingUserInputRef,
               stallingIntervalRef, isAITurnRef, botReplyQueueRef,
               lastSeenFactualReplyRef, llmStatus, webllmRefIsReady, wsOpen, runs,
               ttsAbortControllerRef, sourceNodeRef, ttsStatus, muted, gainNodeRef,
               delayed, relayed>>

orchVars == <<orchState, ev>>

filterVars == <<language, stallingPhase, chatResult, filtered, filterPc>>

vars == <<chunkVars, filterVars, segVars, orchVars>>

\* ------------------------------------------------------------------------
\* Audio worklet (vad-processor.js)
\* ------------------------------------------------------------------------
\* sizes of the blocks the audio graph may hand to process: none, shorter
\* than a frame, a frame, longer than a frame, more than two frames
BlockLengths == 0..(2 * MIN_CHUNK_SIZE + 1)

\* VADProcessor.process for the input block buffer: the partial frame it
\* leaves and the frames it posts
process(gb, gp, buffer) ==
  LET remaining == MIN_CHUNK_SIZE - gp
      filled == ArraySet(gb, ArraySlice(buffer, 0, remaining), gp)
  IN
  IF Len(buffer) >= MIN_CHUNK_SIZE THEN
    [globalBuffer |-> gb, globalPointer |-> gp, posted |-> <<buffer>>]
  ELSE IF Len(buffer) >= remaining THEN
    [globalBuffer |-> ArraySet(Zeros(MIN_CHUNK_SIZE),
                               ArraySlice(buffer, remaining, Len(buffer)), 0),
     globalPointer |-> Len(buffer) - remaining,
     posted |-> <<filled>>]
  ELSE
    [globalBuffer |-> ArraySet(gb, buffer, gp),
     globalPointer |-> gp + Len(buffer),
     posted |-> <<>>]

\* one call of process by the audio graph; no input is a call that returns
\* at once
Process ==
  \E n \in BlockLengths :
    /\ blocks < MaxBlocks
    /\ blocks' = blocks + 1
    /\ inputCount' = inputCount + n
    /\ IF n = 0
         THEN UNCHANGED <<globalBuffer, globalPointer, portOut>>
         ELSE LET r == process(globalBuffer, globalPointer,
                               [i \in 1..n |-> inputCount + i])
              IN /\ globalBuffer' = r.globalBuffer
                 /\ globalPointer' = r.globalPointer
                 /\ portOut' = portOut \o r.posted
    /\ UNCHANGED <<filterVars, segVars, orchVars>>

\* ------------------------------------------------------------------------
\* The stalling filter of handleLLMResponse
\* ------------------------------------------------------------------------
\* texts are sequences of characters here; "D" is the upper case of "d"
Chars == {"a", "d", "D", "e", "?"}

\* what the generation may return: any text of up to MaxResponse characters
Responses == UNION {[1..n -> Chars] : n \in 0..MaxResponse}

Languages == {"en", "fr"}

\* String.prototype.toLowerCase
toLowerCase(s) == [i \in 1..Len(s) |-> IF s[i] = "D" THEN "d" ELSE s[i]]

\* String.prototype.includes
Includes(s, w) ==
  \E i \in 1..(Len(s) - Len(w) + 1) : SubSeq(s, i, i + Len(w) - 1) = w

\* LOCALIZED_STALLING[language]: the pool of pre-written phrases and the
\* forbidden phrases (the French list repeats the English one)
LOCALIZED_STALLING(lang) ==
  IF lang = "fr"
    THEN [safePhrases |-> << <<"u", "n", " ", "i", "n", "s", "t", "a", "n", "t">>,
                             <<"j", "e", " ", "v", "o", "i", "s">> >>,
          forbidden |-> { <<"a", "e">>, <<"d", "e">> }]
    ELSE [safePhrases |-> << <<"o", "n", "e", " ", "m", "o", "m", "e", "n", "t">>,
                             <<"h", "o", "l", "d", " ", "o", "n">> >>,
          forbidden |-> { <<"d", "e">> }]

\* the shortest model response a stalling turn speaks
MIN_STALL_LENGTH == 5

\* a filter that does not look at the length
stallingFilterNoLength(assistantMessage, isStalling, lang, k) ==
  LET currentStalling == LOCALIZED_STALLING(lang)
      msgLower == toLowerCase(assistantMessage)
      isRedundantStall == \E word \in currentStalling.forbidden : Includes(msgLower, word)
  IN IF isStalling /\ (Includes(assistantMessage, <<"?">>) \/ isRedundantStall)
       THEN currentStalling.safePhrases[k]
       ELSE assistantMessage

\* handleLLMResponse, post-processing of the generation's text; k is the
\* index Math.random picks in the pool
stallingFilter(assistantMessage, isStalling, lang, k) ==
  LET currentStalling == LOCALIZED_STALLING(lang)
      msgLower == toLowerCase(assistantMessage)
      isRedundantStall == \E word \in currentStalling.forbidden : Includes(msgLower, word)
  IN IF isStalling /\ (\/ Includes(assistantMessage, <<"?">>)
                       \/ Len(assistantMessage) < MIN_STALL_LENGTH
                       \/ isRedundantStall)
       THEN currentStalling.safePhrases[k]
       ELSE assistantMessage

\* the post-processing step of a handleLLMResponse run whose generation
\* returned chatResult
PostProcess ==
  \E k \in 1..Len(LOCALIZED_STALLING(language).safePhrases) :
    /\ filterPc = "returned"
    /\ filtered' = stallingFilter(chatResult, stallingPhase, language, k)
    /\ filterPc' = "filtered"
    /\ UNCHANGED <<language, stallingPhase, chatResult>>
    /\ UNCHANGED <<chunkVars, segVars, orchVars>>

\* ------------------------------------------------------------------------
\* STT worker
\* ------------------------------------------------------------------------
\* what the last worker step was; rec: the write cursor a stop message found
WorkerEv(op, rec) == [op |-> op, rec |-> rec]

NoUtt == [rec |-> 0, samples |-> <<>>]

PqIdle == [pc |-> "idle", buffer |-> <<>>, wasRecording |-> FALSE, state |-> 0,
           utt |-> NoUtt, overflow |-> <<>>, hasOverflow |-> FALSE]

\* the segmenter's module-level state as one value
Seg == [BUFFER |-> BUFFER, bufferPointer |-> bufferPointer, isRecording |-> isRecording,
        postSpeechSamples |-> postSpeechSamples, prevBuffers |-> prevBuffers]

\* a detector with the enter threshold only
vadNoHysteresis(p, recording) == p > SPEECH_THRESHOLD

\* vad(): the state the model returns once it was fed buffer with state
stateN(state, buffer) == IF buffer = <<>> THEN state ELSE buffer[Len(buffer)]

\* vad(): the hysteresis applied to the model's output
vad(p, recording) == p > SPEECH_THRESHOLD \/ (recording /\ p >= EXIT_THRESHOLD)

\* a reset that moves the cursor and leaves the samples where they are
resetAfterRecordingNoFill(s, offset) ==
  [BUFFER |-> s.BUFFER, bufferPointer |-> offset,
   isRecording |-> FALSE, postSpeechSamples |-> 0, prevBuffers |-> <<>>]

\* resetAfterRecording(offset)
resetAfterRecording(s, offset) ==
  [BUFFER |-> ArrayFill0(s.BUFFER, offset), bufferPointer |-> offset,
   isRecording |-> FALSE, postSpeechSamples |-> 0, prevBuffers |-> <<>>]

\* an utterance made of the recording alone, without the pre-speech frames
PaddedBufferNoPrefix(s) ==
  [rec |-> s.bufferPointer,
   samples |-> ArraySlice(s.BUFFER, 0, s.bufferPointer + SPEECH_PAD_SAMPLES)]

\* dispatchForTranscription, up to its await: the utterance handed to transcribe
PaddedBuffer(s) ==
  [rec |-> s.bufferPointer,
   samples |-> Concat(s.prevBuffers)
               \o ArraySlice(s.BUFFER, 0, s.bufferPointer + SPEECH_PAD_SAMPLES)]

\* dispatchForTranscription without the copy of the overflow
AfterTranscriptionNoCarry(s, overflow, hasOverflow) ==
  resetAfterRecording(s, 0)

\* dispatchForTranscription, after its await: the overflow is copied to the
\* start of the buffer and the segmenter is reset behind it
AfterTranscription(s, overflow, hasOverflow) ==
  LET b == IF hasOverflow THEN ArraySet(s.BUFFER, overflow, 0) ELSE s.BUFFER
  IN resetAfterRecording([s EXCEPT !.BUFFER = b], Len(overflow))

\* a worker that posts every non-empty text, the blank-audio sentinel included
TranscriptPostsNoSentinel(raw) ==
  LET text == Trim(raw)
  IN (IF text # <<>>
        THEN << [type |-> "transcript", text |-> text, isFinal |-> TRUE] >>
        ELSE <<>>)
     \o << [type |-> "status", text |-> <<"listening">>, isFinal |-> FALSE] >>

\* the messages dispatchForTranscription posts after transcribe returned raw
TranscriptPosts(raw) ==
  LET text == Trim(raw)
  IN (IF text # <<>> /\ text \notin {<<>>, <<"[BLANK_AUDIO]">>}
        THEN << [type |-> "transcript", text |-> text, isFinal |-> TRUE] >>
        ELSE <<>>)
     \o << [type |-> "status", text |-> <<"listening">>, isFinal |-> FALSE] >>

\* a segmenter whose speech frames leave the silence count as it is
processAudioChunkKeepsCount(s, buffer, wasRecording, isSpeech) ==
  LET remaining == Len(s.BUFFER) - s.bufferPointer
      appended == [s EXCEPT !.BUFFER = ArraySet(s.BUFFER, buffer, s.bufferPointer),
                            !.bufferPointer = s.bufferPointer + Len(buffer)]
      silent == [appended EXCEPT !.postSpeechSamples = s.postSpeechSamples + Len(buffer)]
      res(st, d, o, h, post) ==
        [seg |-> st, dispatch |-> d, overflow |-> o, hasOverflow |-> h, post |-> post]
  IN
  IF ~wasRecording /\ ~isSpeech THEN
    res([s EXCEPT !.prevBuffers =
           (IF Len(s.prevBuffers) >= MAX_NUM_PREV_BUFFERS
              THEN Tail(s.prevBuffers) ELSE s.prevBuffers) \o <<buffer>>],
        FALSE, <<>>, FALSE, <<>>)
  ELSE IF Len(buffer) >= remaining THEN
    res([s EXCEPT !.BUFFER = ArraySet(s.BUFFER, ArraySlice(buffer, 0, remaining),
                                      s.bufferPointer),
                  !.bufferPointer = s.bufferPointer + remaining],
        TRUE, ArraySlice(buffer, remaining, Len(buffer)), TRUE, <<>>)
  ELSE IF isSpeech THEN
    res([appended EXCEPT !.isRecording = TRUE],
        FALSE, <<>>, FALSE,
        IF ~s.isRecording
          THEN << [type |-> "status", text |-> <<"recording">>, isFinal |-> FALSE] >>
          ELSE <<>>)
  ELSE IF silent.postSpeechSamples < MIN_SILENCE_DURATION_SAMPLES THEN
    res(silent, FALSE, <<>>, FALSE, <<>>)
  ELSE IF silent.bufferPointer < MIN_SPEECH_DURATION_SAMPLES THEN
    res(resetAfterRecording(silent, 0), FALSE, <<>>, FALSE,
        << [type |-> "status", text |-> <<"listening">>, isFinal |-> FALSE] >>)
  ELSE
    res(silent, TRUE, <<>>, FALSE, <<>>)

\* a segmenter whose full pre-speech FIFO gives up its newest frame
processAudioChunkDropsNewest(s, buffer, wasRecording, isSpeech) ==
  LET remaining == Len(s.BUFFER) - s.bufferPointer
      appended == [s EXCEPT !.BUFFER = ArraySet(s.BUFFER, buffer, s.bufferPointer),
                            !.bufferPointer = s.bufferPointer + Len(buffer)]
      silent == [appended EXCEPT !.postSpeechSamples = s.postSpeechSamples + Len(buffer)]
      res(st, d, o, h, post) ==
        [seg |-> st, dispatch |-> d, overflow |-> o, hasOverflow |-> h, post |-> post]
  IN
  IF ~wasRecording /\ ~isSpeech THEN
    res([s EXCEPT !.prevBuffers =
           (IF Len(s.prevBuffers) >= MAX_NUM_PREV_BUFFERS
              THEN SubSeq(s.prevBuffers, 1, Len(s.prevBuffers) - 1)
              ELSE s.prevBuffers) \o <<buffer>>],
        FALSE, <<>>, FALSE, <<>>)
  ELSE IF Len(buffer) >= remaining THEN
    res([s EXCEPT !.BUFFER = ArraySet(s.BUFFER, ArraySlice(buffer, 0, remaining),
                                      s.bufferPointer),
                  !.bufferPointer = s.bufferPointer + remaining],
        TRUE, ArraySlice(buffer, remaining, Len(buffer)), TRUE, <<>>)
  ELSE IF isSpeech THEN
    res([appended EXCEPT !.isRecording = TRUE, !.postSpeechSamples = 0],
        FALSE, <<>>, FALSE,
        IF ~s.isRecording
          THEN << [type |-> "status", text |-> <<"recording">>, isFinal |-> FALSE] >>
          ELSE <<>>)
  ELSE IF silent.postSpeechSamples < MIN_SILENCE_DURATION_SAMPLES THEN
    res(silent, FALSE, <<>>, FALSE, <<>>)
  ELSE IF silent.bufferPointer < MIN_SPEECH_DURATION_SAMPLES THEN
    res(resetAfterRecording(silent, 0), FALSE, <<>>, FALSE,
        << [type |-> "status", text |-> <<"listening">>, isFinal |-> FALSE] >>)
  ELSE
    res(silent, TRUE, <<>>, FALSE, <<>>)

\* processAudioChunk after vad returned: the new segmenter state, whether it
\* goes on to dispatchForTranscription (and with which overflow), and the
\* status it posts
processAudioChunk(s, buffer, wasRecording, isSpeech) ==
  LET remaining == Len(s.BUFFER) - s.bufferPointer
      appended == [s EXCEPT !.BUFFER = ArraySet(s.BUFFER, buffer, s.bufferPointer),
                            !.bufferPointer = s.bufferPointer + Len(buffer)]
      silent == [appended EXCEPT !.postSpeechSamples = s.postSpeechSamples + Len(buffer)]
      res(st, d, o, h, post) ==
        [seg |-> st, dispatch |-> d, overflow |-> o, hasOverflow |-> h, post |-> post]
  IN
  IF ~wasRecording /\ ~isSpeech THEN
    res([s EXCEPT !.prevBuffers =
           (IF Len(s.prevBuffers) >= MAX_NUM_PREV_BUFFERS
              THEN Tail(s.prevBuffers) ELSE s.prevBuffers) \o <<buffer>>],
        FALSE, <<>>, FALSE, <<>>)
  ELSE IF Len(buffer) >= remaining THEN
    res([s EXCEPT !.BUFFER = ArraySet(s.BUFFER, ArraySlice(buffer, 0, remaining),
                                      s.bufferPointer),
                  !.bufferPointer = s.bufferPointer + remaining],
        TRUE, ArraySlice(buffer, remaining, Len(buffer)), TRUE, <<>>)
  ELSE IF isSpeech THEN
    res([appended EXCEPT !.isRecording = TRUE, !.postSpeechSamples = 0],
        FALSE, <<>>, FALSE,
        IF ~s.isRecording
          THEN << [type |-> "status", text |-> <<"recording">>, isFinal |-> FALSE] >>
          ELSE <<>>)
  ELSE IF silent.postSpeechSamples < MIN_SILENCE_DURATION_SAMPLES THEN
    res(silent, FALSE, <<>>, FALSE, <<>>)
  ELSE IF silent.bufferPointer < MIN_SPEECH_DURATION_SAMPLES THEN
    res(resetAfterRecording(silent, 0), FALSE, <<>>, FALSE,
        << [type |-> "status", text |-> <<"listening">>, isFinal |-> FALSE] >>)
  ELSE
    res(silent, TRUE, <<>>, FALSE, <<>>)

\* assign the segmenter's state
SetSeg(s) ==
  /\ BUFFER' = s.BUFFER
  /\ bufferPointer' = s.bufferPointer
  /\ isRecording' = s.isRecording
  /\ postSpeechSamples' = s.postSpeechSamples
  /\ prevBuffers' = s.prevBuffers

\* a loop that takes the newest queued frame first
ContinueQueueNewestFirst(queue, recording, state) ==
  /\ IF queue # <<>>
       THEN /\ audioQueue' = SubSeq(queue, 1, Len(queue) - 1)
            /\ isProcessing' = TRUE
            /\ pq' = [PqIdle EXCEPT !.pc = "vad", !.buffer = queue[Len(queue)],
                                    !.wasRecording = recording, !.state = state]
       ELSE /\ audioQueue' = queue
            /\ isProcessing' = FALSE
            /\ pq' = PqIdle

\* processQueue's loop once processAudioChunk returned: take the next queued
\* frame up to its await of the VAD model, or release the lock
ContinueQueue(queue, recording, state) ==
  /\ IF queue # <<>>
       THEN /\ audioQueue' = Tail(queue)
            /\ isProcessing' = TRUE
            /\ pq' = [PqIdle EXCEPT !.pc = "vad", !.buffer = Head(queue),
                                    !.wasRecording = recording, !.state = state]
       ELSE /\ audioQueue' = queue
            /\ isProcessing' = FALSE
            /\ pq' = PqIdle

\* self.onmessage, type "audio": queueAudio, and processQueue when unlocked
OnAudio ==
  \E buffer \in Frames :
    /\ UNCHANGED <<chunkVars, filterVars, orchState>> /\ ev' = WorkerEv("OnAudio", 0)
    /\ Len(audioQueue) < MaxQueue
    /\ workerOut' = <<>>
    /\ UNCHANGED <<BUFFER, bufferPointer, isRecording, postSpeechSamples, prevBuffers,
                   vadState, stops>>
    /\ IF ~isProcessing
         THEN ContinueQueue(Append(audioQueue, buffer), isRecording, vadState)
         ELSE /\ audioQueue' = Append(audioQueue, buffer)
              /\ UNCHANGED <<isProcessing, pq>>

\* the frame the worklet posts once inputCount samples went before it, when
\* it is fed blocks shorter than a frame: the next MIN_CHUNK_SIZE samples
StreamFrame(count) == [i \in 1..MIN_CHUNK_SIZE |-> count + i]

\* workletNode.port.onmessage and self.onmessage, type "audio": the page
\* forwards the worklet's next frame to the worker
OnAudioStream ==
  LET buffer == StreamFrame(inputCount)
  IN /\ inputCount < MaxFrames * MIN_CHUNK_SIZE
     /\ inputCount' = inputCount + MIN_CHUNK_SIZE
     /\ UNCHANGED <<globalBuffer, globalPointer, portOut, blocks>>
     /\ UNCHANGED <<filterVars, orchState>> /\ ev' = WorkerEv("OnAudio", 0)
     /\ Len(audioQueue) < MaxQueue
     /\ workerOut' = <<>>
     /\ UNCHANGED <<BUFFER, bufferPointer, isRecording, postSpeechSamples, prevBuffers,
                    vadState, stops>>
     /\ IF ~isProcessing
          THEN ContinueQueue(Append(audioQueue, buffer), isRecording, vadState)
          ELSE /\ audioQueue' = Append(audioQueue, buffer)
               /\ UNCHANGED <<isProcessing, pq>>

\* the VAD model returns p for the frame processAudioChunk is waiting on
VadReturn ==
  \E p \in Probabilities :
    /\ UNCHANGED <<chunkVars, filterVars, orchState>> /\ ev' = WorkerEv("VadReturn", 0)
    /\ pq.pc = "vad"
    /\ vadState' = stateN(pq.state, pq.buffer)
    /\ LET r == processAudioChunk(Seg, pq.buffer, pq.wasRecording, vad(p, isRecording))
       IN /\ SetSeg(r.seg)
          /\ UNCHANGED stops
          /\ IF r.dispatch
               THEN /\ pq' = [pq EXCEPT !.pc = "transcribe", !.utt = PaddedBuffer(r.seg),
                                        !.overflow = r.overflow,
                                        !.hasOverflow = r.hasOverflow]
                    /\ workerOut' = << [type |-> "status", text |-> <<"transcribing">>,
                                        isFinal |-> FALSE] >>
                    /\ UNCHANGED <<audioQueue, isProcessing>>
               ELSE /\ workerOut' = r.post
                    /\ ContinueQueue(audioQueue, r.seg.isRecording,
                                     stateN(pq.state, pq.buffer))

\* the transcription engine returns for the dispatch made by processQueue
TranscribeReturn ==
  \E raw \in RawTexts :
    /\ UNCHANGED <<chunkVars, filterVars, orchState>> /\ ev' = WorkerEv("TranscribeReturn", 0)
    /\ pq.pc = "transcribe"
    /\ LET s == AfterTranscription(Seg, pq.overflow, pq.hasOverflow)
       IN /\ SetSeg(s)
          /\ workerOut' = TranscriptPosts(raw)
          /\ UNCHANGED <<stops, vadState>>
          /\ ContinueQueue(audioQueue, s.isRecording, vadState)

\* the transcription engine throws for the dispatch made by processQueue:
\* the rejection leaves processAudioChunk and processQueue (try/finally, no
\* catch) and nothing of the segmenter is touched
TranscribeThrow ==
  /\ UNCHANGED <<chunkVars, filterVars, orchState>> /\ ev' = WorkerEv("TranscribeThrow", 0)
  /\ pq.pc = "transcribe"
  /\ isProcessing' = FALSE
  /\ pq' = PqIdle
  /\ workerOut' = <<>>
  /\ UNCHANGED <<BUFFER, bufferPointer, isRecording, postSpeechSamples, prevBuffers,
                 vadState, audioQueue, stops>>

\* a stop message that flushes whatever was recorded
FlushDispatchesAny(s) == s.bufferPointer > 0

\* a stop message that dispatches without looking at the recording
FlushDispatchesAlways(s) == s.bufferPointer >= 0

\* self.onmessage, type "stop": whether the recording is long enough to flush
FlushDispatches(s) == s.bufferPointer > MIN_SPEECH_DURATION_SAMPLES

\* self.onmessage, type "stop"
OnStop ==
  /\ UNCHANGED <<chunkVars, filterVars, orchState>> /\ ev' = WorkerEv("OnStop", bufferPointer)
  /\ UNCHANGED <<isProcessing, audioQueue, pq, vadState>>
  /\ IF FlushDispatches(Seg)
       THEN /\ Len(stops) < MaxStops
            /\ stops' = Append(stops, PaddedBuffer(Seg))
            /\ workerOut' = << [type |-> "status", text |-> <<"transcribing">>,
                                isFinal |-> FALSE] >>
            /\ UNCHANGED <<BUFFER, bufferPointer, isRecording, postSpeechSamples, prevBuffers>>
       ELSE /\ SetSeg(resetAfterRecording(Seg, 0))
            /\ workerOut' = <<>>
            /\ UNCHANGED stops

RemoveAt(s, i) == SubSeq(s, 1, i - 1) \o SubSeq(s, i + 1, Len(s))

\* the transcription engine returns for a dispatch made by a stop handler
StopTranscribeReturn ==
  \E i \in 1..Len(stops), raw \in RawTexts :
    /\ UNCHANGED <<chunkVars, filterVars, orchState>> /\ ev' = WorkerEv("StopTranscribeReturn", 0)
    /\ stops' = RemoveAt(stops, i)
    /\ SetSeg(AfterTranscription(Seg, <<>>, FALSE))
    /\ workerOut' = TranscriptPosts(raw)
    /\ UNCHANGED <<isProcessing, audioQueue, pq, vadState>>

\* the transcription engine throws for a dispatch made by a stop handler
StopTranscribeThrow ==
  \E i \in 1..Len(stops) :
    /\ UNCHANGED <<chunkVars, filterVars, orchState>> /\ ev' = WorkerEv("StopTranscribeThrow", 0)
    /\ stops' = RemoveAt(stops, i)
    /\ workerOut' = <<>>
    /\ UNCHANGED <<BUFFER, bufferPointer, isRecording, postSpeechSamples, prevBuffers,
                   vadState, isProcessing, audioQueue, pq>>

\* ------------------------------------------------------------------------
\* Turn-taking orchestrator (VoiceChat) with useTTS and useWebLLM
\* ------------------------------------------------------------------------
\* texts are token sequences; <<>> stands for null, undefined and ""
\* (all falsy; no input below is empty)
TranscriptTexts == { <<"a">>, <<" ", "a", " ">>, <<" ">> }
Replies == { <<"x">>, <<"hello", "x">> }

\* reply.replace(/^hello[!,.\s]*/i, "")
NormalizeReply(reply) ==
  IF reply # <<>> /\ Head(reply) = "hello" THEN Tail(reply) ELSE reply

\* tts.modelLoaded: a call starts once the models are loaded
TtsModelLoaded == TRUE

Msg(role, content) == [role |-> role, content |-> content]

\* the orchestrator's refs and state as one value
O == [messages |-> messages, messagesRef |-> messagesRef,
      isCallActive |-> isCallActive, isCallActiveRef |-> isCallActiveRef,
      status |-> status, isProcessingRef |-> isProcessingRef,
      abortControllerRef |-> abortControllerRef,
      pendingUserInputRef |-> pendingUserInputRef,
      stallingIntervalRef |-> stallingIntervalRef, isAITurnRef |-> isAITurnRef,
      botReplyQueueRef |-> botReplyQueueRef,
      lastSeenFactualReplyRef |-> lastSeenFactualReplyRef,
      llmStatus |-> llmStatus, webllmRefIsReady |-> webllmRefIsReady,
      wsOpen |-> wsOpen, runs |-> runs,
      ttsAbortControllerRef |-> ttsAbortControllerRef,
      sourceNodeRef |-> sourceNodeRef, ttsStatus |-> ttsStatus, muted |-> muted,
      gainNodeRef |-> gainNodeRef, delayed |-> delayed,
      relayed |-> <<>>]

SetO(s) ==
  /\ messages' = s.messages
  /\ messagesRef' = s.messagesRef
  /\ isCallActive' = s.isCallActive
  /\ isCallActiveRef' = s.isCallActiveRef
  /\ status' = s.status
  /\ isProcessingRef' = s.isProcessingRef
  /\ abortControllerRef' = s.abortControllerRef
  /\ pendingUserInputRef' = s.pendingUserInputRef
  /\ stallingIntervalRef' = s.stallingIntervalRef
  /\ isAITurnRef' = s.isAITurnRef
  /\ botReplyQueueRef' = s.botReplyQueueRef
  /\ lastSeenFactualReplyRef' = s.lastSeenFactualReplyRef
  /\ llmStatus' = s.llmStatus
  /\ webllmRefIsReady' = s.webllmRefIsReady
  /\ wsOpen' = s.wsOpen
  /\ runs' = s.runs
  /\ ttsAbortControllerRef' = s.ttsAbortControllerRef
  /\ sourceNodeRef' = s.sourceNodeRef
  /\ ttsStatus' = s.ttsStatus
  /\ muted' = s.muted
  /\ gainNodeRef' = s.gainNodeRef
  /\ delayed' = s.delayed
  /\ relayed' = s.relayed

\* a handler run suspended in an await: handleLLMResponse ("llm") in the
\* generation ("chat") or in tts.speak ("synth", "play"), handleBotReply
\* ("bot") in tts.speak.  signalAborted: the signal of its speak call was
\* aborted during synthesis (nothing reads it later); stopped: its audio
\* source was stopped; barged: a final transcript arrived while its
\* generation was awaited.
NewRun(id, kind, isStalling, fromQueue) ==
  [id |-> id, kind |-> kind, isStalling |-> isStalling, fromQueue |-> fromQueue,
   pc |-> "chat", text |-> <<>>, signalAborted |-> FALSE, stopped |-> FALSE,
   barged |-> FALSE]

RunIds(s) == {r.id : r \in s.runs}

\* an id for a new controller: the least one no live run and no ref holds
FreshId(s) ==
  CHOOSE n \in 1..(MaxRuns + 2) :
    /\ n \notin RunIds(s) \cup {s.abortControllerRef}
    /\ \A m \in 1..(n - 1) : m \in RunIds(s) \cup {s.abortControllerRef}

PutRun(s, run) == [s EXCEPT !.runs = {r \in s.runs : r.id # run.id} \cup {run}]

\* the run has returned; a ref that still holds its finished controller
\* holds a controller nobody listens to (-1)
DelRun(s, id) ==
  [s EXCEPT !.runs = {r \in s.runs : r.id # id},
            !.ttsAbortControllerRef = IF @ = id THEN -1 ELSE @]

\* abortControllerRef.current?.abort(): the signal reaches nobody, as
\* useWebLLM.chat takes (messages, systemPrompt) and drops the options that
\* carry it
AbortCurrent(s) == s

\* useTTS.speak up to its first await: status "speaking" (relayed to the
\* component by onStatusChange) and a new AbortController for this call
ttsSpeak(s, run, text) ==
  PutRun([s EXCEPT !.status = "speaking", !.ttsStatus = "speaking",
                   !.ttsAbortControllerRef = run.id],
         [run EXCEPT !.pc = "synth", !.text = text, !.signalAborted = FALSE,
                     !.stopped = FALSE, !.barged = FALSE])

\* useTTS.stop
ttsStop(s) ==
  [s EXCEPT !.runs = {[r EXCEPT !.signalAborted = @ \/ (r.id = s.ttsAbortControllerRef
                                                        /\ r.pc = "synth"),
                                !.stopped = @ \/ (r.id = s.sourceNodeRef /\ r.pc = "play")]
                      : r \in s.runs},
            !.ttsAbortControllerRef = 0,
            !.sourceNodeRef = 0,
            !.ttsStatus = "ready"]

\* useTTS.speak once the audio is synthesized: the gain node is created on
\* first use, with the gain a new node has, and the source is started
startSource(s, id) ==
  [s EXCEPT !.gainNodeRef = IF @ = -1 THEN 1 ELSE @,
            !.sourceNodeRef = id]

\* useTTS.speak on the way out (aborted, ended or failed): updateStatus("ready")
speakResolved(s) == [s EXCEPT !.ttsStatus = "ready"]

\* useTTS.setMuted
setMuted(s, m) ==
  [s EXCEPT !.muted = m,
            !.gainNodeRef = IF @ = -1 THEN -1 ELSE (IF m THEN 0 ELSE 1)]

\* the status shown once a handleLLMResponse run is past speaking or failed
StatusAfterTurn(s) ==
  IF s.isCallActiveRef
    THEN [s EXCEPT !.status = IF s.isAITurnRef THEN "thinking" ELSE "listening"]
    ELSE s

\* a finally block of handleBotReply that releases the lock only
handleBotReplyFinallyKeepsTurn(s) ==
  [s EXCEPT !.isProcessingRef = FALSE,
            !.status = IF s.isCallActiveRef THEN "listening" ELSE @]

\* handleBotReply: the finally block
handleBotReplyFinally(s) ==
  [s EXCEPT !.isProcessingRef = FALSE, !.isAITurnRef = FALSE,
            !.status = IF s.isCallActiveRef THEN "listening" ELSE @]

LastContent(hist) == IF hist = <<>> THEN <<>> ELSE hist[Len(hist)].content

\* handleBotReply up to its await of tts.speak (or to its end)
handleBotReply(s, reply, fromQueue, id) ==
  IF ~s.isCallActiveRef THEN s
  ELSE IF ~fromQueue /\ (reply = s.lastSeenFactualReplyRef \/ reply = LastContent(s.messagesRef))
    THEN s
  ELSE
    LET normalizedReply == NormalizeReply(reply)
        s1 == IF ~fromQueue
                THEN [AbortCurrent(s) EXCEPT
                        !.lastSeenFactualReplyRef = reply,
                        !.stallingIntervalRef = "null",
                        !.messages = Append(@, Msg("assistant", normalizedReply))]
                ELSE [s EXCEPT !.botReplyQueueRef = <<>>]
        s2 == [s1 EXCEPT !.isProcessingRef = TRUE, !.status = "speaking"]
    IN IF ~fromQueue /\ s.isProcessingRef
         THEN [s1 EXCEPT !.botReplyQueueRef = normalizedReply]
       ELSE IF TtsModelLoaded
         THEN ttsSpeak(s2, NewRun(id, "bot", FALSE, fromQueue), normalizedReply)
       ELSE handleBotReplyFinally(s2)

\* handleLLMResponse: the finally block of the run that owns controller id
handleLLMResponseFinally(s, id, isStalling) ==
  LET s1 == IF s.abortControllerRef = id
              THEN [s EXCEPT !.isProcessingRef = FALSE, !.abortControllerRef = 0]
              ELSE s
      s2 == IF isStalling /\ s1.isCallActiveRef /\ s1.botReplyQueueRef = <<>>
              THEN [s1 EXCEPT !.stallingIntervalRef = "armed"]
              ELSE s1
      s3 == IF s2.botReplyQueueRef # <<>>
              THEN handleBotReply(s2, s2.botReplyQueueRef, TRUE, FreshId(s2))
              ELSE s2
  IN IF s3.pendingUserInputRef # <<>> /\ s3.abortControllerRef = 0 /\ ~s3.isAITurnRef
       THEN LET newHistory == Append(s3.messagesRef, Msg("user", s3.pendingUserInputRef))
            IN [s3 EXCEPT !.pendingUserInputRef = <<>>,
                          !.messages = newHistory,
                          !.relayed = s3.pendingUserInputRef,
                          !.delayed = Append(@, newHistory)]
       ELSE s3

\* handleLLMResponse up to its await of the generation (or to its end)
handleLLMResponse(s, conversationHistory, isStalling, id) ==
  LET s0 == [s EXCEPT !.isAITurnRef = TRUE]
      s1 == [AbortCurrent(s0) EXCEPT !.stallingIntervalRef = "null",
                                      !.isProcessingRef = TRUE,
                                      !.pendingUserInputRef = <<>>,
                                      !.abortControllerRef = id,
                                      !.status = "thinking"]
  IN IF isStalling /\ s0.botReplyQueueRef # <<>> THEN s0
     ELSE IF s0.isProcessingRef /\ isStalling THEN s0
     ELSE IF ~s1.webllmRefIsReady
       THEN \* throw new Error("LLM not ready"): catch, then finally
            handleLLMResponseFinally(StatusAfterTurn(s1), id, isStalling)
     ELSE \* webllm.chat: status "generating", then the await
          PutRun([s1 EXCEPT !.llmStatus = "generating"], NewRun(id, "llm", isStalling, FALSE))

\* the run's tts.speak has resolved: the rest of its handler
AfterSpeak(s, run) ==
  IF run.kind = "llm"
    THEN handleLLMResponseFinally(StatusAfterTurn(DelRun(s, run.id)), run.id, run.isStalling)
    ELSE handleBotReplyFinally(DelRun(s, run.id))

\* the effects that copy rendered state into refs have run
Synced ==
  /\ messagesRef = messages
  /\ isCallActiveRef = isCallActive
  /\ webllmRefIsReady = (llmStatus = "ready")

\* the bounds of the model: at most cap suspended handler runs, and a
\* history of at most MaxHist entries once every generation has returned
Within(s, cap) ==
  /\ Cardinality(s.runs) <= cap
  /\ Len(s.messages) + Cardinality({r \in s.runs : r.pc = "chat"}) <= MaxHist
  /\ Len(s.messagesRef) <= MaxHist

Ev(op, id) == [op |-> op]

\* React commits and runs the effects: messagesRef, isCallActiveRef, webllmRef
Render ==
  /\ ~Synced
  /\ SetO([O EXCEPT !.messagesRef = messages, !.isCallActiveRef = isCallActive,
                    !.webllmRefIsReady = (llmStatus = "ready")])
  /\ ev' = Ev("Render", 0)
  /\ UNCHANGED <<chunkVars, filterVars, segVars>>

\* the runs, with the generations that a final transcript found in flight marked
Barged(s) ==
  {[r EXCEPT !.barged = @ \/ (r.pc = "chat" /\ s.isProcessingRef)] : r \in s.runs}

\* the interrupt branch of the transcript handler, taken for every transcript
\* that arrives during the AI turn
TranscriptInterrupts(s, text) ==
  [ttsStop(AbortCurrent(s)) EXCEPT !.relayed = Trim(text),
                                   !.pendingUserInputRef = Trim(text)]

\* worker.onmessage, type "transcript": the return taken while the AI turn
\* or processing is active
TranscriptDropped(s, text) == [s EXCEPT !.runs = Barged(s)]

\* worker.onmessage, type "transcript": the events the handler takes up
TranscriptAccepted(text, isFinal) == isFinal /\ text # <<>> /\ Trim(text) # <<>>

\* worker.onmessage, type "transcript"
Transcript(cap) ==
  \E text \in TranscriptTexts, isFinal \in BOOLEAN :
    /\ wsOpen
    /\ UNCHANGED <<chunkVars, filterVars, segVars>>
    /\ IF ~TranscriptAccepted(text, isFinal)
         THEN /\ UNCHANGED orchVars
       ELSE IF isAITurnRef \/ isProcessingRef
         THEN /\ SetO(TranscriptDropped(O, text))
              /\ ev' = Ev("TranscriptBlocked", 0)
         ELSE LET newHistory == Append(messagesRef, Msg("user", Trim(text)))
                  s == handleLLMResponse([O EXCEPT !.messages = newHistory,
                                                   !.relayed = Trim(text)],
                                         newHistory, TRUE, FreshId(O))
              IN /\ Within(s, cap)
                 /\ SetO(s)
                 /\ ev' = Ev("Transcript", FreshId(O))

\* the text form, shown while no call is active
TextSubmit(cap) ==
  \E text \in TranscriptTexts :
    /\ ~isCallActive
    /\ status = "ready"
    /\ Synced
    /\ Trim(text) # <<>>
    /\ UNCHANGED <<chunkVars, filterVars, segVars>>
    /\ LET userMessage == Msg("user", Trim(text))
           s == handleLLMResponse([O EXCEPT !.messages = Append(@, userMessage)],
                                  Append(messagesRef, userMessage), TRUE, FreshId(O))
       IN /\ Within(s, cap)
          /\ SetO(s)
    /\ ev' = Ev("TextSubmit", FreshId(O))

\* the 30 s stall timer runs its callback
StallTimerFire(cap) ==
  /\ stallingIntervalRef = "armed"
  /\ UNCHANGED <<chunkVars, filterVars, segVars>>
  /\ LET s1 == [O EXCEPT !.stallingIntervalRef = "fired"]
         s == IF botReplyQueueRef = <<>> /\ isCallActiveRef
                THEN handleLLMResponse(s1, messagesRef, TRUE, FreshId(O))
                ELSE s1
     IN /\ Within(s, cap)
        /\ SetO(s)
  /\ ev' = Ev("StallTimerFire", FreshId(O))

\* ws.onmessage with a botReply
BotReply(cap) ==
  \E reply \in Replies :
    /\ wsOpen
    /\ UNCHANGED <<chunkVars, filterVars, segVars>>
    /\ LET s == handleBotReply(O, reply, FALSE, FreshId(O))
       IN /\ Within(s, cap)
          /\ SetO(s)
    /\ ev' = Ev("BotReply", FreshId(O))

\* the generation returns its text to a handleLLMResponse run
ChatReturn ==
  \E run \in runs :
    /\ run.pc = "chat"
    /\ UNCHANGED <<chunkVars, filterVars, segVars>>
    /\ LET assistantMessage == <<"stall">>
           s1 == [O EXCEPT !.llmStatus = "ready",
                           !.messages = Append(@, Msg("assistant", assistantMessage))]
       IN IF TtsModelLoaded
            THEN SetO(ttsSpeak(s1, run, assistantMessage))
            ELSE SetO(AfterSpeak(s1, run))
    /\ ev' = Ev("ChatReturn", run.id)

\* the generation throws (webllm.chat rethrows what is not an AbortError)
ChatThrow ==
  \E run \in runs :
    /\ run.pc = "chat"
    /\ UNCHANGED <<chunkVars, filterVars, segVars>>
    /\ SetO(AfterSpeak([O EXCEPT !.llmStatus = "error"], run))
    /\ ev' = Ev("ChatThrow", run.id)

\* streamTTS has produced the audio: play it, or return when aborted
SynthDone ==
  \E run \in runs :
    /\ run.pc = "synth"
    /\ UNCHANGED <<chunkVars, filterVars, segVars>>
    /\ IF run.signalAborted
         THEN SetO(AfterSpeak(speakResolved(O), run))
         ELSE SetO(PutRun(startSource(O, run.id), [run EXCEPT !.pc = "play"]))
    /\ ev' = Ev("SynthDone", run.id)

\* synthesis throws: speak catches it and resolves
SynthThrow ==
  \E run \in runs :
    /\ run.pc = "synth"
    /\ UNCHANGED <<chunkVars, filterVars, segVars>>
    /\ SetO(AfterSpeak(speakResolved(O), run))
    /\ ev' = Ev("SynthThrow", run.id)

\* source.onended: the audio ended or was stopped
PlayEnded ==
  \E run \in runs :
    /\ run.pc = "play"
    /\ UNCHANGED <<chunkVars, filterVars, segVars>>
    /\ SetO(AfterSpeak(speakResolved([O EXCEPT !.sourceNodeRef = 0]), run))
    /\ ev' = Ev("PlayEnded", run.id)

\* the speaker button: tts.setMuted(!tts.muted)
SetMuted ==
  /\ UNCHANGED <<chunkVars, filterVars, segVars>>
  /\ SetO(setMuted(O, ~muted))
  /\ ev' = Ev("SetMuted", 0)

\* startCall
StartCall ==
  /\ ~isCallActive
  /\ Synced
  /\ UNCHANGED <<chunkVars, filterVars, segVars>>
  /\ SetO([O EXCEPT !.lastSeenFactualReplyRef = <<>>,
                    !.botReplyQueueRef = <<>>,
                    !.isProcessingRef = FALSE,
                    !.isAITurnRef = FALSE,
                    !.wsOpen = TRUE,
                    !.isCallActive = TRUE,
                    !.messages = <<>>])
  /\ ev' = Ev("StartCall", 0)

\* endCall
EndCall ==
  /\ isCallActive
  /\ Synced
  /\ UNCHANGED <<chunkVars, filterVars, segVars>>
  /\ SetO([ttsStop([AbortCurrent(O) EXCEPT !.abortControllerRef = 0,
                                           !.isProcessingRef = FALSE,
                                           !.isCallActive = FALSE])
             EXCEPT !.status = "ready"])
  /\ ev' = Ev("EndCall", 0)

WorkerInit ==
  /\ BUFFER = Zeros(BufferLength)
  /\ bufferPointer = 0
  /\ isRecording = FALSE
  /\ postSpeechSamples = 0
  /\ prevBuffers = <<>>
  /\ vadState = 0
  /\ isProcessing = FALSE
  /\ audioQueue = <<>>
  /\ pq = PqIdle
  /\ stops = <<>>
  /\ workerOut = <<>>

\* the component once the models are loaded
VoiceChatInit ==
  /\ messages = <<>>
  /\ messagesRef = <<>>
  /\ isCallActive = FALSE
  /\ isCallActiveRef = FALSE
  /\ status = "ready"
  /\ isProcessingRef = FALSE
  /\ abortControllerRef = 0
  /\ pendingUserInputRef = <<>>
  /\ stallingIntervalRef = "null"
  /\ isAITurnRef = FALSE
  /\ botReplyQueueRef = <<>>
  /\ lastSeenFactualReplyRef = <<>>
  /\ llmStatus = "ready"
  /\ webllmRefIsReady = TRUE
  /\ wsOpen = FALSE
  /\ runs = {}
  /\ ttsAbortControllerRef = 0
  /\ sourceNodeRef = 0
  /\ ttsStatus = "ready"
  /\ muted = FALSE
  /\ gainNodeRef = -1
  /\ delayed = <<>>
  /\ relayed = <<>>
  /\ ev = Ev("Init", 0)

\* the worklet module once loaded
ChunkerInit ==
  /\ globalBuffer = Zeros(MIN_CHUNK_SIZE)
  /\ globalPointer = 0
  /\ portOut = <<>>
  /\ inputCount = 0
  /\ blocks = 0

\* no generation has returned
NoResponseInit ==
  /\ language = "en"
  /\ stallingPhase = TRUE
  /\ chatResult = <<>>
  /\ filtered = <<>>
  /\ filterPc = "filtered"

\* a generation has returned some text to a run of either phase
ResponseInit ==
  /\ language \in Languages
  /\ stallingPhase \in BOOLEAN
  /\ chatResult \in Responses
  /\ filtered = chatResult
  /\ filterPc = "returned"

FilterInit == ChunkerInit /\ ResponseInit /\ WorkerInit /\ VoiceChatInit

FilterNext == PostProcess

\* the stalling filter applied to every text the generation may return
SpecFilter == FilterInit /\ [][FilterNext]_vars

ChunkInit == ChunkerInit /\ NoResponseInit /\ WorkerInit /\ VoiceChatInit

ChunkNext == Process

\* the audio worklet fed with blocks of any size
SpecChunk == ChunkInit /\ [][ChunkNext]_vars

SegInit == ChunkerInit /\ NoResponseInit /\ WorkerInit /\ VoiceChatInit

SegNext ==
  \/ OnAudio
  \/ VadReturn
  \/ TranscribeReturn
  \/ TranscribeThrow
  \/ OnStop
  \/ StopTranscribeReturn
  \/ StopTranscribeThrow

SpecSeg == SegInit /\ [][SegNext]_vars

StreamNext ==
  \/ OnAudioStream
  \/ VadReturn
  \/ TranscribeReturn
  \/ TranscribeThrow
  \/ OnStop
  \/ StopTranscribeReturn
  \/ StopTranscribeThrow

\* the STT worker fed with the first MaxFrames frames of a numbered signal
SpecStream == SegInit /\ [][StreamNext]_vars

OrchInit == ChunkerInit /\ NoResponseInit /\ WorkerInit /\ VoiceChatInit

OrchNext ==
  \/ Render
  \/ Transcript(MaxRuns)
  \/ TextSubmit(MaxRuns)
  \/ StallTimerFire(MaxRuns)
  \/ BotReply(MaxRuns)
  \/ ChatReturn
  \/ ChatThrow
  \/ SynthDone
  \/ SynthThrow
  \/ PlayEnded
  \/ StartCall
  \/ EndCall

\* one handler run at a time may be suspended
SpecOrch == OrchInit /\ [][OrchNext]_vars

ParNext ==
  \/ Render
  \/ Transcript(MaxRuns + 1)
  \/ TextSubmit(MaxRuns + 1)
  \/ StallTimerFire(MaxRuns + 1)
  \/ BotReply(MaxRuns + 1)
  \/ ChatReturn
  \/ ChatThrow
  \/ SynthDone
  \/ SynthThrow
  \/ PlayEnded
  \/ StartCall

\* one call, with a request submitted as text before the call possibly still
\* in flight when the call starts: its run overlaps the runs of the call
SpecOrchPar == OrchInit /\ [][ParNext]_vars

\* startCall for the first call of the session: no WebSocket exists yet
FirstCall == ~wsOpen /\ StartCall

CallNext ==
  \/ Render
  \/ Transcript(MaxRuns)
  \/ StallTimerFire(MaxRuns)
  \/ BotReply(MaxRuns)
  \/ ChatReturn
  \/ ChatThrow
  \/ SynthDone
  \/ SynthThrow
  \/ PlayEnded
  \/ SetMuted
  \/ FirstCall
  \/ EndCall

\* one voice call from its start to after its end, with the speaker button;
\* nothing is typed
SpecCall == OrchInit /\ [][CallNext]_vars

\* what the browser does without being asked: it renders, every awaited
\* generation, synthesis and playback settles, and an armed timer runs
CallFairness ==
  /\ WF_vars(Render)
  /\ WF_vars(ChatReturn)
  /\ WF_vars(SynthDone)
  /\ WF_vars(PlayEnded)
  /\ WF_vars(StallTimerFire(MaxRuns))

\* one call in a browser that keeps running
FairSpecCall == SpecCall /\ CallFairness

EndNext ==
  \/ Render
  \/ Transcript(MaxRuns + 1)
  \/ TextSubmit(MaxRuns + 1)
  \/ StallTimerFire(MaxRuns + 1)
  \/ BotReply(MaxRuns + 1)
  \/ ChatReturn
  \/ ChatThrow
  \/ SynthDone
  \/ SynthThrow
  \/ PlayEnded
  \/ FirstCall
  \/ EndCall

\* the session up to and after the end of its first call: requests typed
\* before, during and after the call, whose runs may overlap
SpecOrchEnd == OrchInit /\ [][EndNext]_vars

\* ------------------------------------------------------------------------
\* Properties
\* ------------------------------------------------------------------------
\* the run r is resumed by this step: it leaves the await it was suspended in
Resumed(r) ==
  /\ r \in runs
  /\ ~(\E r2 \in runs' : r2.id = r.id /\ r2.kind = r.kind /\ r2.pc = r.pc)

\* a tts.speak call is started by this step
SpeakStarted ==
  \E r2 \in runs' :
    /\ r2.pc = "synth"
    /\ ~(\E r \in runs : r.id = r2.id /\ r.kind = r2.kind /\ r.pc = "synth")

LlmRuns == {r \in runs : r.kind = "llm"}

\* C1: a handleLLMResponse run that resumes when abortControllerRef no longer
\* holds its controller (call end cleared it, or a newer request took it)
\* changes none of the history, isProcessingRef, the stall timer,
\* botReplyQueueRef, pendingUserInputRef and isAITurnRef, and starts no speak.
C1_CancelledCompletionIsNoOp ==
  [][\A r \in LlmRuns :
       (Resumed(r) /\ abortControllerRef # r.id)
         => /\ UNCHANGED <<messages, isProcessingRef, stallingIntervalRef,
                           botReplyQueueRef, pendingUserInputRef, isAITurnRef>>
            /\ ~SpeakStarted]_vars

\* C2: at most one handler run (a handleLLMResponse run past its guards, or
\* a handleBotReply run that is speaking) is in flight at any time.
C2_AtMostOnePipeline == Cardinality(runs) <= 1

\* C3: when a final transcript arrives while isProcessingRef is true, the
\* request in flight is cancelled (abortControllerRef no longer holds its
\* controller), and a generation that such a transcript arrived on does not
\* append to the history when it completes.
C3_InterruptedCompletionDoesNotAppend ==
  [][/\ (ev'.op = "TranscriptBlocked" /\ isProcessingRef)
          => \A r \in runs' : r.kind = "llm" => abortControllerRef' # r.id
     /\ \A r \in LlmRuns :
          (r.pc = "chat" /\ r.barged /\ Resumed(r)) => messages' = messages]_vars

\* C4: a final transcript B that arrives while the stalling generation of a
\* transcript A is awaited is stored in pendingUserInputRef (from where the
\* finally block of A's handler makes it the next user turn).
C4_SecondTranscriptBecomesPending ==
  [][(ev'.op = "TranscriptBlocked" /\ isProcessingRef
        /\ \E r \in LlmRuns : r.pc = "chat" /\ r.isStalling /\ abortControllerRef = r.id)
        => pendingUserInputRef' = <<"a">>]_vars

\* the handler run r has returned in this step
Finished(r) == r \in runs /\ ~(\E r2 \in runs' : r2.id = r.id /\ r2.kind = r.kind)

\* a handleBotReply(reply, true) run has started to speak text in this step
QueuedRunStarted(text) ==
  \E r2 \in runs' :
    /\ r2.kind = "bot" /\ r2.fromQueue /\ r2.pc = "synth" /\ r2.text = text
    /\ ~(\E r \in runs : r.id = r2.id /\ r.kind = "bot")

\* a handleLLMResponse run has passed its guards in this step
StallStarted ==
  \E r2 \in runs' : r2.kind = "llm" /\ ~(\E r \in runs : r.id = r2.id /\ r.kind = "llm")

\* the stall in flight: the handleLLMResponse run that owns the token
CurrentStall == {r \in LlmRuns : r.isStalling /\ abortControllerRef = r.id}

\* C5: an external reply that arrives while a stalling generation or playback
\* is in flight is stored in the queue; the queue is emptied only by the
\* finish of that stall's handler, which starts one playback of the stored
\* reply; and while the reply is stored, and in the step that hands it to
\* playback, no stall timer is armed and no generation is started (all of it
\* during a call).
C5_QueuedReplySpokenOnceNoStall ==
  [][/\ (ev'.op = "BotReply" /\ messages' # messages /\ isProcessingRef /\ CurrentStall # {})
          => botReplyQueueRef' = LastContent(messages')
     /\ \A r \in CurrentStall :
          (Finished(r) /\ botReplyQueueRef # <<>> /\ isCallActiveRef)
            => botReplyQueueRef' = <<>> /\ QueuedRunStarted(botReplyQueueRef)
     /\ (botReplyQueueRef # <<>> /\ botReplyQueueRef' = <<>> /\ isCallActive /\ isCallActive')
          => /\ \E r \in CurrentStall : Finished(r)
             /\ QueuedRunStarted(botReplyQueueRef)
     /\ (isCallActive /\ isCallActive'
           /\ (botReplyQueueRef' # <<>> \/ \E r \in CurrentStall : Finished(r) /\ botReplyQueueRef # <<>>))
          => stallingIntervalRef' # "armed" /\ ~StallStarted]_vars

\* C6: every utterance handed to the transcription engine, by the silence
\* threshold, by an overflow or by a stop message, holds at least
\* MIN_SPEECH_DURATION_SAMPLES recorded samples; and a stop message that finds
\* a recording not longer than that resets the segmenter, dispatches nothing
\* and posts nothing.
C6_NoShortUtterance ==
  [][/\ pq'.pc = "transcribe"
          => /\ pq'.utt.rec >= MIN_SPEECH_DURATION_SAMPLES
             /\ Len(pq'.utt.samples) >= MIN_SPEECH_DURATION_SAMPLES
     /\ \A i \in 1..Len(stops') :
          /\ stops'[i].rec >= MIN_SPEECH_DURATION_SAMPLES
          /\ Len(stops'[i].samples) >= MIN_SPEECH_DURATION_SAMPLES
     /\ (ev'.op = "OnStop" /\ bufferPointer <= MIN_SPEECH_DURATION_SAMPLES)
          => /\ stops' = stops /\ pq' = pq
             /\ workerOut' = <<>>
             /\ bufferPointer' = 0 /\ BUFFER' = Zeros(BufferLength)
             /\ ~isRecording' /\ postSpeechSamples' = 0 /\ prevBuffers' = <<>>]_vars

\* a stop message has just discarded a recording that was not empty
C6_Witness ==
  /\ ev.op = "OnStop"
  /\ ev.rec > 0 /\ ev.rec <= MIN_SPEECH_DURATION_SAMPLES
  /\ bufferPointer = 0 /\ stops = <<>> /\ workerOut = <<>>

\* C7: no utterance is dispatched at the silence threshold from a recording
\* whose part up to the last speech frame is shorter than
\* MIN_SPEECH_DURATION_SAMPLES; the segmenter is reset instead.
C7_ShortBurstDiscarded ==
  [][(ev'.op = "VadReturn" /\ pq.wasRecording
        /\ Len(pq.buffer) < BufferLength - bufferPointer
        /\ postSpeechSamples' >= MIN_SILENCE_DURATION_SAMPLES
        /\ bufferPointer - postSpeechSamples < MIN_SPEECH_DURATION_SAMPLES)
       => pq'.pc # "transcribe" /\ bufferPointer' = 0 /\ ~isRecording']_vars

\* C8: a frame that does not fit into the rest of the recording buffer fills
\* the buffer with its first samples and the full buffer is dispatched with
\* the other samples as overflow, the two parts being the frame; when that
\* transcription returns, the buffer is the overflow followed by zeros and the
\* write cursor is the length of the overflow.
C8_OverflowCarried ==
  [][/\ (ev'.op = "VadReturn" /\ pq.wasRecording
           /\ Len(pq.buffer) >= BufferLength - bufferPointer)
          => pq'.pc = "transcribe" /\ pq'.hasOverflow
     /\ (ev'.op = "VadReturn" /\ pq'.pc = "transcribe" /\ pq'.hasOverflow)
          => /\ bufferPointer' = BufferLength
             /\ pq'.utt.rec = BufferLength
             /\ pq'.utt.samples = Concat(prevBuffers) \o BUFFER'
             /\ SubSeq(BUFFER', 1, bufferPointer) = SubSeq(BUFFER, 1, bufferPointer)
             /\ SubSeq(BUFFER', bufferPointer + 1, BufferLength) \o pq'.overflow = pq.buffer
     /\ (ev'.op = "TranscribeReturn" /\ pq.hasOverflow)
          => /\ bufferPointer' = Len(pq.overflow)
             /\ BUFFER' = pq.overflow \o Zeros(BufferLength - Len(pq.overflow))
             /\ ~isRecording' /\ postSpeechSamples' = 0 /\ prevBuffers' = <<>>]_vars

\* the transcription of a full buffer has just returned and the buffer
\* starts with the samples carried over
C8_Witness ==
  /\ ev.op = "TranscribeReturn"
  /\ bufferPointer > 0
  /\ BUFFER[1] # 0

\* C9: at most one call of the transcription engine is in flight.
C9_OneEngineCallInFlight ==
  (IF pq.pc = "transcribe" THEN 1 ELSE 0) + Len(stops) <= 1

\* C10: when the engine throws for the utterance processQueue dispatched, an
\* error is posted, the segmenter is reset, and the frames queued behind it
\* are taken up at once.
C10_EngineFailureSkipsUtterance ==
  [][ev'.op = "TranscribeThrow"
       => /\ \E i \in 1..Len(workerOut') : workerOut'[i].type = "error"
          /\ bufferPointer' = 0 /\ ~isRecording'
          /\ audioQueue # <<>> => pq'.pc = "vad" /\ isProcessing']_vars

\* the playback and synthesis in flight are left alone by this step
PlaybackUntouched ==
  /\ UNCHANGED <<ttsAbortControllerRef, sourceNodeRef>>
  /\ \A r \in runs : \E r2 \in runs' :
       /\ r2.id = r.id /\ r2.kind = r.kind /\ r2.pc = r.pc
       /\ r2.signalAborted = r.signalAborted /\ r2.stopped = r.stopped

\* C11: a final transcript that arrives while isAITurnRef is set changes none
\* of the history, pendingUserInputRef, botReplyQueueRef, abortControllerRef
\* and the stall timer, leaves synthesis and playback alone, starts no
\* handler run and posts nothing to the backend.
C11_TranscriptDroppedInAITurn ==
  [][(ev'.op = "TranscriptBlocked" /\ isAITurnRef)
       => /\ UNCHANGED <<messages, pendingUserInputRef, botReplyQueueRef,
                         abortControllerRef, stallingIntervalRef>>
          /\ PlaybackUntouched
          /\ Cardinality(runs') = Cardinality(runs)
          /\ relayed' = <<>>]_vars

\* a transcript has just been dropped during a playback that goes on
C11_Witness ==
  /\ ev.op = "TranscriptBlocked"
  /\ isAITurnRef
  /\ \E r \in runs : r.pc = "play" /\ ~r.stopped /\ sourceNodeRef = r.id

\* this step is ws.onmessage delivering reply
BotReplyStep(reply) ==
  /\ ev'.op = "BotReply"
  /\ SetO(handleBotReply(O, reply, FALSE, FreshId(O)))

\* C12: an external reply equal to the last accepted external reply, or to
\* the content of the last entry of the history, appends nothing to the
\* history, starts no playback and leaves the stall timer, abortControllerRef
\* and botReplyQueueRef unchanged.
C12_DuplicateReplyIgnored ==
  [][\A reply \in Replies :
       (BotReplyStep(reply)
          /\ (reply = lastSeenFactualReplyRef \/ reply = LastContent(messages)))
         => UNCHANGED <<messages, runs, stallingIntervalRef, abortControllerRef,
                        botReplyQueueRef>>]_vars

\* C13: the state endCall leaves has no active token and no processing, no
\* synthesis or playback going on, empty pendingUserInputRef and
\* botReplyQueueRef, no armed stall timer and an empty history.
C13_CallEndClearsEverything ==
  [][ev'.op = "EndCall"
       => /\ abortControllerRef' = 0 /\ ~isProcessingRef'
          /\ ttsAbortControllerRef' = 0 /\ sourceNodeRef' = 0
          /\ \A r \in runs' : r.pc = "play" => r.stopped
          /\ pendingUserInputRef' = <<>> /\ botReplyQueueRef' = <<>>
          /\ stallingIntervalRef' # "armed"
          /\ messages' = <<>>]_vars

\* C14: when the generation throws, or handleLLMResponse throws "LLM not
\* ready" before it, the handler leaves isProcessingRef and isAITurnRef
\* false.
C14_GenerationFailureReturnsToUser ==
  [][(\/ ev'.op = "ChatThrow"
      \/ (ev'.op = "Transcript" /\ ~webllmRefIsReady))
       => ~isProcessingRef' /\ ~isAITurnRef']_vars

\* an external reply stands in the history hist with no user entry after it
RepliedSinceUserTurn(hist) ==
  \E i \in 1..Len(hist) :
    /\ hist[i].role = "assistant" /\ hist[i].content \in {NormalizeReply(r) : r \in Replies}
    /\ \A j \in (i + 1)..Len(hist) : hist[j].role # "user"

\* C15: a stalling handleLLMResponse run that finishes during a call with
\* nothing in botReplyQueueRef leaves the stall timer armed; the step that
\* accepts an external reply leaves it not armed; and from then to the next
\* user entry of the history no step arms the timer and the timer starts no
\* generation.
C15_StallTimerArmedOnceCancelledByReply ==
  [][/\ \A r \in LlmRuns :
          (r.isStalling /\ Finished(r) /\ isCallActive /\ isCallActiveRef
             /\ botReplyQueueRef = <<>>)
            => stallingIntervalRef' = "armed"
     /\ (ev'.op = "BotReply" /\ messages' # messages) => stallingIntervalRef' # "armed"
     /\ (isCallActive /\ RepliedSinceUserTurn(messages) /\ RepliedSinceUserTurn(messages'))
          => /\ stallingIntervalRef # "armed" => stallingIntervalRef' # "armed"
             /\ ev'.op = "StallTimerFire" => ~StallStarted]_vars

\* C16: when a handleBotReply run returns (its playback ended or was
\* stopped, or its synthesis failed), isProcessingRef and isAITurnRef are
\* false; and a final transcript that finds both false is not dropped: it
\* becomes the last entry of the history, as a user entry, and is relayed.
C16_TerminalPhaseEndsAITurn ==
  [][/\ \A r \in runs :
          (r.kind = "bot" /\ Finished(r)) => ~isProcessingRef' /\ ~isAITurnRef'
     /\ ev'.op = "TranscriptBlocked" => isAITurnRef \/ isProcessingRef
     /\ ev'.op = "Transcript"
          => /\ messages' # <<>>
             /\ messages'[Len(messages')] = Msg("user", <<"a">>)
             /\ relayed' = <<"a">>]_vars

\* a final transcript has just been accepted as the user turn that follows
\* a spoken external reply
C16_Witness ==
  /\ ev.op = "Transcript"
  /\ Len(messages) >= 2
  /\ messages[Len(messages) - 1] = Msg("assistant", <<"x">>)
  /\ messages[Len(messages)] = Msg("user", <<"a">>)
  /\ lastSeenFactualReplyRef # <<>>

\* C17: an utterance dispatched at the silence threshold, whose recording up
\* to the last speech frame has at least MIN_SPEECH_DURATION_SAMPLES samples,
\* is as long as the pre-speech frames, that recording and the trailing
\* padding together, give or take one frame.
C17_UtteranceLength ==
  [][(ev'.op = "VadReturn" /\ pq'.pc = "transcribe" /\ ~pq'.hasOverflow
        /\ bufferPointer' - postSpeechSamples' >= MIN_SPEECH_DURATION_SAMPLES)
       => LET expected == Len(Concat(prevBuffers'))
                            + (bufferPointer' - postSpeechSamples')
                            + SPEECH_PAD_SAMPLES
              actual == Len(pq'.utt.samples)
          IN /\ actual <= expected + MIN_CHUNK_SIZE
             /\ expected <= actual + MIN_CHUNK_SIZE]_vars

\* C18: the write cursor never exceeds the capacity of the recording buffer
\* less the trailing padding.
C18_CursorLeavesRoomForPadding ==
  bufferPointer <= BufferLength - SPEECH_PAD_SAMPLES

\* C19: no recording is dispatched twice: while the dispatch made by
\* processQueue awaits the engine, no stop handler awaits the engine with the
\* same recording.
C19_RecordingDispatchedOnce ==
  pq.pc = "transcribe" => \A i \in 1..Len(stops) : stops[i] # pq.utt

\* the segmenter as resetAfterRecording() leaves it
SegmenterIsReset ==
  /\ bufferPointer = 0 /\ ~isRecording
  /\ prevBuffers = <<>> /\ postSpeechSamples = 0

\* C20: a stop message on a reset segmenter dispatches nothing, posts nothing
\* and leaves the segmenter as it was.
C20_StopOnResetIsNoOp ==
  [][(ev'.op = "OnStop" /\ SegmenterIsReset)
       => /\ UNCHANGED <<BUFFER, bufferPointer, isRecording, postSpeechSamples,
                        prevBuffers>>
          /\ stops' = stops /\ pq' = pq
          /\ workerOut' = <<>>]_vars

C20_Witness ==
  /\ ev.op = "OnStop" /\ ev.rec = 0
  /\ SegmenterIsReset
  /\ stops = <<>> /\ workerOut = <<>>

\* the step in which the VAD model returns p for the awaited frame
VadStep(p) ==
  /\ ev'.op = "VadReturn" /\ pq.pc = "vad"
  /\ SetSeg(processAudioChunk(Seg, pq.buffer, pq.wasRecording, vad(p, isRecording)).seg)

\* the awaited frame was appended as speech: the recording is open behind it
\* and the silence count is 0
TreatedAsSpeech ==
  /\ isRecording' /\ postSpeechSamples' = 0
  /\ bufferPointer' = bufferPointer + Len(pq.buffer)

\* C21: a frame is treated as speech exactly when p is above the enter
\* threshold, or the segmenter is recording and p is at least the exit
\* threshold; a frame at or below the enter threshold never opens a recording.
C21_Hysteresis ==
  [][\A p \in Probabilities :
       VadStep(p)
         => /\ Len(pq.buffer) < BufferLength - bufferPointer
                 => (TreatedAsSpeech
                       <=> (p > SPEECH_THRESHOLD \/ (isRecording /\ p >= EXIT_THRESHOLD)))
            /\ (~isRecording /\ p <= SPEECH_THRESHOLD) => ~isRecording']_vars

C21_Witness ==
  /\ ev.op = "VadReturn"
  /\ isRecording /\ postSpeechSamples = 0
  /\ bufferPointer >= 3 * MIN_CHUNK_SIZE

\* C22: every frame the worklet posts has MIN_CHUNK_SIZE samples.
C22_FramesHaveFixedSize ==
  \A i \in 1..Len(portOut) : Len(portOut[i]) = MIN_CHUNK_SIZE

\* C23: the posted frames followed by the samples of the partial frame are
\* the input samples in arrival order, and the partial frame is not full.
C23_SamplesConserved ==
  /\ globalPointer >= 0 /\ globalPointer < MIN_CHUNK_SIZE
  /\ Concat(portOut) \o SubSeq(globalBuffer, 1, globalPointer)
       = [i \in 1..inputCount |-> i]

\* C24: tts.stop() (called by endCall) stops every playing source and aborts
\* the synthesis in flight, and the TTS status is ready; a speak call stopped
\* during synthesis starts no source afterwards; when a stopped speak call
\* resolves the TTS status is ready unless the next speak starts at once.
C24_StopCancelsSpeak ==
  [][/\ ev'.op = "EndCall"
          => /\ ttsStatus' = "ready"
             /\ ttsAbortControllerRef' = 0 /\ sourceNodeRef' = 0
             /\ \A r \in runs' : (r.pc = "play" => r.stopped)
                                  /\ (r.pc = "synth" => r.signalAborted)
     /\ \A r \in runs :
          /\ (r.pc = "synth" /\ r.signalAborted)
               => ~(\E r2 \in runs' : r2.id = r.id /\ r2.kind = r.kind /\ r2.pc = "play")
          /\ ((r.signalAborted \/ r.stopped) /\ Finished(r) /\ ~SpeakStarted)
               => ttsStatus' = "ready"]_vars

\* a source was started and has neither ended nor been stopped
Playing(r) == r.pc = "play" /\ ~r.stopped

\* C25: while the mute flag is set, playback runs with gain 0.
C25_MutedPlaybackIsSilent ==
  (muted /\ \E r \in runs : Playing(r)) => gainNodeRef = 0

\* C26: at most one playback is active.
C26_AtMostOnePlayback ==
  Cardinality({r \in runs : Playing(r)}) <= 1

IsPrefix(a, b) == Len(a) <= Len(b) /\ SubSeq(b, 1, Len(a)) = a

\* C27: within a call every step leaves the history it found as a prefix of
\* the history it leaves.
C27_HistoryAppendOnly ==
  [][(isCallActive /\ isCallActive') => IsPrefix(messages, messages')]_vars

HasTranscript(posts) == \E i \in 1..Len(posts) : posts[i].type = "transcript"

\* C28: when a transcription completes, the worker posts a transcript event
\* exactly when the trimmed text is neither empty nor the blank-audio
\* sentinel; every event it posts is final and carries that text; the
\* orchestrator's handler takes up such an event and would not take it up
\* were it not final.
C28_TranscriptEvents ==
  [][ev'.op \in {"TranscribeReturn", "StopTranscribeReturn"}
       => /\ \E raw \in RawTexts : workerOut' = TranscriptPosts(raw)
          /\ \A raw \in RawTexts :
               workerOut' = TranscriptPosts(raw)
                 => (HasTranscript(workerOut')
                       <=> Trim(raw) \notin {<<>>, <<"[BLANK_AUDIO]">>})
          /\ \A i \in 1..Len(workerOut') :
               workerOut'[i].type = "transcript"
                 => /\ workerOut'[i].isFinal
                    /\ workerOut'[i].text \notin {<<>>, <<"[BLANK_AUDIO]">>}
                    /\ TranscriptAccepted(workerOut'[i].text, workerOut'[i].isFinal)
                    /\ ~TranscriptAccepted(workerOut'[i].text, FALSE)]_vars

C28_Witness ==
  /\ ev.op = "TranscribeReturn"
  /\ \E i \in 1..Len(workerOut) :
       /\ workerOut[i].type = "transcript"
       /\ workerOut[i].text = <<"hello">> /\ workerOut[i].isFinal

\* the response is one the stalling phase must not speak
MustBeReplaced(text, lang) ==
  \/ Includes(text, <<"?">>)
  \/ Len(text) < 5
  \/ \E word \in LOCALIZED_STALLING(lang).forbidden : Includes(text, word)

InPool(text, lang) ==
  \E k \in 1..Len(LOCALIZED_STALLING(lang).safePhrases) :
    text = LOCALIZED_STALLING(lang).safePhrases[k]

\* C29: a stalling-phase response with a question mark, shorter than five
\* characters or with a forbidden phrase of the language is replaced by a
\* phrase of the pool; a response of the other phase is kept as it is.
C29_StallingFilter ==
  filterPc = "filtered"
    => /\ (stallingPhase /\ MustBeReplaced(chatResult, language))
            => (InPool(filtered, language) /\ filtered # chatResult)
       /\ ~stallingPhase => filtered = chatResult

C29_Witness ==
  /\ filterPc = "filtered" /\ stallingPhase
  /\ Len(chatResult) = 4 /\ ~Includes(chatResult, <<"?">>)
  /\ ~Includes(toLowerCase(chatResult), <<"d", "e">>)
  /\ InPool(filtered, language)

\* C30: a recording is closed by silence only once the silence count has
\* reached MIN_SILENCE_DURATION_SAMPLES; a speech frame sets the count to 0;
\* a non-speech frame that leaves the count below the threshold is appended
\* and neither closes the recording nor posts anything.
C30_ShortPausesDoNotSplit ==
  [][ev'.op = "VadReturn"
       => /\ (pq'.pc = "transcribe" /\ ~pq'.hasOverflow)
               => postSpeechSamples' >= MIN_SILENCE_DURATION_SAMPLES
          /\ \A p \in Probabilities :
               (VadStep(p) /\ Len(pq.buffer) < BufferLength - bufferPointer)
                 => /\ vad(p, isRecording)
                         => (postSpeechSamples' = 0 /\ isRecording'
                               /\ pq'.pc # "transcribe")
                    /\ (/\ isRecording /\ ~vad(p, isRecording)
                        /\ postSpeechSamples + Len(pq.buffer) < MIN_SILENCE_DURATION_SAMPLES)
                         => /\ isRecording' /\ pq'.pc # "transcribe"
                            /\ bufferPointer' = bufferPointer + Len(pq.buffer)
                            /\ postSpeechSamples' = postSpeechSamples + Len(pq.buffer)
                            /\ workerOut' = <<>>]_vars

\* a pause still shorter than the threshold, inside an open recording
C30_Witness ==
  /\ ev.op = "VadReturn"
  /\ isRecording
  /\ postSpeechSamples > 0 /\ postSpeechSamples < MIN_SILENCE_DURATION_SAMPLES
  /\ bufferPointer >= 2 * MIN_CHUNK_SIZE
  /\ pq.pc # "transcribe" /\ workerOut = <<>>

\* the samples of a numbered signal, in the order they arrived
IsIncreasing(q) == \A i \in 1..(Len(q) - 1) : q[i] < q[i + 1]

\* the utterance the code has to build from a pre-speech FIFO, a recording
\* buffer and a write cursor
ExpectedUtterance(fifo, buf, cursor) ==
  Concat(fifo) \o SubSeq(buf, 1, Min(cursor + SPEECH_PAD_SAMPLES, BufferLength))

\* C31: every utterance handed to the engine, by processAudioChunk or by a stop
\* message, is the pre-speech FIFO in arrival order followed by the recording
\* buffer up to min(cursor + padding, capacity); the reset after the engine
\* returned clears the FIFO, the silence count and the recording flag.
C31_UtteranceLayout ==
  [][/\ (ev'.op = "VadReturn" /\ pq'.pc = "transcribe")
          => /\ pq'.utt.samples = ExpectedUtterance(prevBuffers', BUFFER', bufferPointer')
             /\ IsIncreasing(Concat(prevBuffers'))
             /\ Len(pq'.utt.samples) <= Len(Concat(prevBuffers')) + BufferLength
     /\ (ev'.op = "OnStop" /\ Len(stops') > Len(stops))
          => /\ stops'[Len(stops')].samples
                  = ExpectedUtterance(prevBuffers, BUFFER, bufferPointer)
             /\ IsIncreasing(Concat(prevBuffers))
     /\ ev'.op \in {"TranscribeReturn", "StopTranscribeReturn"}
          => prevBuffers' = <<>> /\ postSpeechSamples' = 0 /\ ~isRecording']_vars

\* an utterance with pre-speech frames whose padding would pass the end of
\* the buffer, and the reset after it
C31_Witness ==
  /\ ev.op = "VadReturn" /\ pq.pc = "transcribe"
  /\ prevBuffers # <<>>
  /\ pq.utt.rec + SPEECH_PAD_SAMPLES > BufferLength
  /\ Len(pq.utt.samples) = Len(Concat(prevBuffers)) + BufferLength

\* the last n elements of q
LastN(q, n) == IF Len(q) <= n THEN q ELSE SubSeq(q, Len(q) - n + 1, Len(q))

\* C32: the pre-speech FIFO never holds more than MAX_NUM_PREV_BUFFERS
\* frames; a non-speech frame whose processing began while not recording is
\* pushed behind the frames already there, the oldest leaving when the FIFO
\* is full, and the recording buffer is left alone; no other frame and no
\* other step changes the FIFO except by emptying it.
C32_PreSpeechFifo ==
  [][/\ Len(prevBuffers') <= MAX_NUM_PREV_BUFFERS
     /\ \A p \in Probabilities :
          VadStep(p)
            => IF ~pq.wasRecording /\ ~vad(p, isRecording)
                 THEN /\ prevBuffers'
                           = LastN(prevBuffers \o <<pq.buffer>>, MAX_NUM_PREV_BUFFERS)
                      /\ IsIncreasing(Concat(prevBuffers'))
                      /\ BUFFER' = BUFFER /\ bufferPointer' = bufferPointer
                 ELSE prevBuffers' \in {prevBuffers, <<>>}
     /\ ev'.op # "VadReturn" => prevBuffers' \in {prevBuffers, <<>>}]_vars

\* the FIFO is full and its oldest frame has left
C32_Witness ==
  /\ ev.op = "VadReturn" /\ ~isRecording
  /\ Len(prevBuffers) = MAX_NUM_PREV_BUFFERS
  /\ prevBuffers[1][1] > 1
  /\ prevBuffers[MAX_NUM_PREV_BUFFERS] = StreamFrame(vadState - MIN_CHUNK_SIZE)

\* the step starts the processing of a frame
StartsFrame == pq'.pc = "vad" /\ (pq.pc # "vad" \/ pq'.buffer # pq.buffer)

\* C33: frames are processed one at a time in arrival order. The lock is held
\* exactly while a frame is being processed; a frame's processing starts only
\* when no other frame is being scored or transcribed after the step that
\* ended it; the frame scored is the one that arrived right after the last
\* frame scored, the queue holds the frames after it in order, and the VAD
\* state passed with it is the state returned for the frame before.
C33_FramesOneAtATime ==
  [][/\ (pq.pc # "idle") => isProcessing
     /\ StartsFrame
          => \/ ev'.op = "OnAudio" /\ pq.pc = "idle" /\ ~isProcessing
             \/ ev'.op = "VadReturn" /\ pq.pc = "vad"
             \/ ev'.op = "TranscribeReturn" /\ pq.pc = "transcribe"
     /\ StartsFrame
          => /\ pq'.state = vadState'
             /\ pq'.buffer = StreamFrame(vadState')
             /\ Concat(<<pq'.buffer>> \o audioQueue')
                  = [i \in 1..(inputCount' - vadState') |-> vadState' + i]
     /\ ev'.op = "VadReturn"
          => /\ pq.state = vadState
             /\ pq.buffer = StreamFrame(vadState)
             /\ vadState' = vadState + MIN_CHUNK_SIZE]_vars

\* a frame that waited in the queue while the frame before it was
\* transcribed is now being scored
C33_Witness ==
  /\ ev.op = "TranscribeReturn"
  /\ pq.pc = "vad" /\ pq.state = vadState
  /\ vadState >= 3 * MIN_CHUNK_SIZE
  /\ audioQueue # <<>>

\* C34: a stop message acts only once every frame received before it has
\* been processed: no frame is queued, none is suspended in VAD scoring and
\* no dispatch of processQueue is suspended in transcription; and when the
\* stop has been handled the segmenter is in the reset state.
C34_StopOrderedWithFrames ==
  [][/\ ev'.op = "OnStop" => (audioQueue = <<>> /\ pq.pc = "idle")
     /\ (\/ ev'.op = "OnStop" /\ stops' = stops
         \/ ev'.op = "StopTranscribeReturn")
          => SegmenterIsReset']_vars

\* the samples of buf from position from + 1 on are all zero
ZeroFrom(buf, from) == \A i \in (from + 1)..Len(buf) : buf[i] = 0

\* C39: every sample of the recording buffer at or beyond the write cursor is
\* zero, and so is the trailing padding of every utterance waiting for the
\* engine.
C39_BufferZeroBeyondCursor ==
  /\ bufferPointer <= BufferLength
  /\ ZeroFrom(BUFFER, bufferPointer)
  /\ \A u \in {stops[i] : i \in 1..Len(stops)}
             \cup (IF pq.pc = "transcribe" THEN {pq.utt} ELSE {}) :
       LET n == Min(SPEECH_PAD_SAMPLES, BufferLength - u.rec)
       IN ZeroFrom(u.samples, Len(u.samples) - n)

\* the buffer was full, its carry has been copied to the front, and the
\* samples behind the carry have been cleared
C39_Witness ==
  /\ ev.op = "TranscribeReturn"
  /\ bufferPointer > 0 /\ BUFFER[bufferPointer] # 0
  /\ BUFFER[BufferLength] = 0

\* C35: a reply waiting in botReplyQueueRef during a call is never replaced
\* by another reply, and a handleLLMResponse run, whose finally block is the
\* only code that dispatches the queue, is still in flight.
C35_QueuedReplyIsDispatched ==
  [][/\ (isCallActive' /\ botReplyQueueRef' # <<>>) => \E r \in runs' : r.kind = "llm"
     /\ (isCallActive /\ isCallActive' /\ botReplyQueueRef # <<>>)
          => (ev'.op = "BotReply" => botReplyQueueRef' = botReplyQueueRef)]_vars

\* C36: when an external reply is delivered during a call (the call being
\* active for the handlers too) while the AI turn is locked, the lock is
\* eventually released (or the call ends).
C36_ReplyEndsAITurn ==
  (ev.op = "BotReply" /\ isCallActive /\ isCallActiveRef /\ isAITurnRef)
    ~> (~isAITurnRef \/ ~isCallActive)

\* C37: a stall timer armed during one call has no effect in a later call.
\* The timer's callback acts when isCallActiveRef is true, and a timer can
\* only be armed while it is true; so at the step that makes a new call
\* active for the handlers no timer may be armed, and the callback of a
\* timer that ran while no call was active starts nothing.
C37_NoStallTimerAcrossCalls ==
  [][/\ (ev'.op = "Render" /\ ~isCallActiveRef /\ isCallActiveRef')
          => stallingIntervalRef' # "armed"
     /\ (ev'.op = "StallTimerFire" /\ ~isCallActiveRef)
          => (runs' = runs /\ isAITurnRef' = isAITurnRef)]_vars

\* C38: assistant entries enter the history in the order they are spoken:
\* when the text of a stall is appended and handed to tts.speak, the history
\* holds no external reply that is still waiting to be spoken.
C38_HistoryInSpokenOrder ==
  [][(ev'.op = "ChatReturn" /\ isCallActive /\ botReplyQueueRef # <<>>)
       => \A i \in 1..Len(messages) :
            messages[i] # Msg("assistant", botReplyQueueRef)]_vars

====
